---------------------------- MODULE Spec2Model ----------------------------
(***************************************************************************)
(* A model of Spot_And_Mask_Analysis_Updated.py: the sample matcher        *)
(* (find_file_triplets), the interior classifier (erode_mask), the         *)
(* coordinate extractor (get_roi_coordinates) and the per-sample main loop *)
(* that classifies channel-2 points against the two interior masks.        *)
(*                                                                         *)
(* Representation of file names: a file name is the sequence of its        *)
(* '_'-separated segments, so "sample1_ch1_cells_mask.tif" is              *)
(* <<"sample1", "ch1", "cells", "mask.tif">>.  No segment of the alphabet  *)
(* contains '_' and none is a proper prefix of "mask.tif", so Python's     *)
(* substring test, str.replace and str.rsplit on the joined name act on    *)
(* whole segments, which is how they are written below.                    *)
(*                                                                         *)
(* Representation of coordinates: a coordinate is an integer number of     *)
(* tenths of a pixel (-4 is -0.4, 45 is 4.5).                              *)
(***************************************************************************)
EXTENDS Integers, Sequences, FiniteSets, TLC

VARIABLES
    \* ---- find_file_triplets ----
    directory,          \* the set of file names in data_dir
    possible_masks,     \* the sorted, de-duplicated list of mask names
    mi,                 \* index in possible_masks of the mask being examined
    unique_candidates,  \* candidate base ids of the mask being examined
    ci,                 \* index in unique_candidates of the next candidate
    found_match,
    triplets,           \* the list being returned
    warnings,           \* masks reported by the "Could not find" warning
    mpc,                \* position in find_file_triplets
    \* ---- erode_mask, called on its own ----
    e_mask,             \* the mask handed to erode_mask
    e_r1, e_r2,         \* the two radii it is eroded at
    e_out1, e_out2,     \* the two interior masks returned
    epc,
    \* ---- the main loop ----
    disk,               \* what each file of the triplets holds: path -> content
    ti,                 \* index in triplets of the sample being processed
    pc,                 \* position in the loop body
    mask, cell_count,
    eroded_std, eroded_deep,
    c1_coords, c1_total,
    c2_coords, c2_total,
    c2_inside, c2_deep_inside, c2_outside,
    h, w,
    pt_i,               \* index in c2_coords of the next point of the for loop
    last_index,         \* the address the interior masks were last indexed at
    reported,           \* the ROI paths "Error reading ROI file" was printed for
    results

mvars == <<directory, possible_masks, mi, unique_candidates, ci, found_match,
           triplets, warnings, mpc>>

evars == <<e_mask, e_r1, e_r2, e_out1, e_out2, epc>>

lvars == <<disk, ti, pc, mask, cell_count, eroded_std, eroded_deep,
           c1_coords, c1_total, c2_coords, c2_total,
           c2_inside, c2_deep_inside, c2_outside, h, w, pt_i, last_index,
           reported, results>>

vars == <<mvars, evars, lvars>>

-----------------------------------------------------------------------------
(* File names *)

MASK_CH1   == <<"ch1", "cells", "mask.tif">>    \* "_ch1_cells_mask.tif"
MASK_CELLS == <<"cells", "mask.tif">>           \* "_cells_mask.tif"
MASK_CELL  == <<"cell", "mask.tif">>            \* "_cell_mask.tif"
C1_SUFFIX  == <<"C1", "ROIs.zip">>              \* "_C1_ROIs.zip"
C2_SUFFIX  == <<"C2", "ROIs.zip">>              \* "_C2_ROIs.zip"

\* The position of each segment in the order of Python's string comparison
\* (code points: upper case before '_' before lower case).
TokenRank ==
    [t \in {"C1", "C2", "ROIs.zip", "cell", "cells", "ch1", "mask.tif", "sample1", "x"} |->
        CASE t = "C1" -> 1 [] t = "C2" -> 2 [] t = "ROIs.zip" -> 3
          [] t = "cell" -> 4 [] t = "cells" -> 5 [] t = "ch1" -> 6
          [] t = "mask.tif" -> 7 [] t = "sample1" -> 8 [] t = "x" -> 9]

\* a < b for two file names, as sorted() compares the joined strings
RECURSIVE NameLess(_, _)
NameLess(a, b) ==
    IF a = <<>> THEN b # <<>>
    ELSE IF b = <<>> THEN FALSE
    ELSE IF a[1] # b[1] THEN TokenRank[a[1]] < TokenRank[b[1]]
    ELSE NameLess(Tail(a), Tail(b))

\* sorted(list(set(...)))
RECURSIVE SortedList(_)
SortedList(S) ==
    IF S = {} THEN <<>>
    ELSE LET least == CHOOSE a \in S : \A b \in S \ {a} : NameLess(a, b)
         IN  <<least>> \o SortedList(S \ {least})

\* glob.glob(os.path.join(directory, "*" + suffix)): the names ending with
\* '_' + suffix
Glob(dir, suffix) ==
    {f \in dir : /\ Len(f) > Len(suffix)
                 /\ SubSeq(f, Len(f) - Len(suffix) + 1, Len(f)) = suffix}

\* ("_" + pat) in filename
Contains(f, pat) ==
    \E i \in 2..(Len(f) - Len(pat) + 1) : SubSeq(f, i, i + Len(pat) - 1) = pat

\* filename.replace("_" + pat, ""): every non-overlapping occurrence, from
\* the left, is removed
RECURSIVE ReplaceFrom(_, _, _)
ReplaceFrom(f, pat, i) ==
    IF i > Len(f) THEN <<>>
    ELSE IF /\ i >= 2
            /\ i + Len(pat) - 1 <= Len(f)
            /\ SubSeq(f, i, i + Len(pat) - 1) = pat
         THEN ReplaceFrom(f, pat, i + Len(pat))
         ELSE <<f[i]>> \o ReplaceFrom(f, pat, i + 1)

Replace(f, pat) == ReplaceFrom(f, pat, 1)

\* filename.rsplit('_', 2)[0]
RSplit2(f) == SubSeq(f, 1, IF Len(f) >= 3 THEN Len(f) - 2 ELSE 1)

\* A faulty variant of Candidates: the fallback is tried first.
CandidatesFallbackFirst(filename) ==
    <<RSplit2(filename)>>
    \o (IF Contains(filename, MASK_CH1) THEN <<Replace(filename, MASK_CH1)>> ELSE <<>>)
    \o (IF Contains(filename, MASK_CELLS) THEN <<Replace(filename, MASK_CELLS)>> ELSE <<>>)
    \o (IF Contains(filename, MASK_CELL) THEN <<Replace(filename, MASK_CELL)>> ELSE <<>>)

\* candidates, in the order the code appends them
Candidates(filename) ==
    (IF Contains(filename, MASK_CH1) THEN <<Replace(filename, MASK_CH1)>> ELSE <<>>)
    \o (IF Contains(filename, MASK_CELLS) THEN <<Replace(filename, MASK_CELLS)>> ELSE <<>>)
    \o (IF Contains(filename, MASK_CELL) THEN <<Replace(filename, MASK_CELL)>> ELSE <<>>)
    \o <<RSplit2(filename)>>

\* [unique_candidates.append(x) for x in candidates if x not in unique_candidates]
RECURSIVE Unique(_, _)
Unique(cands, acc) ==
    IF cands = <<>> THEN acc
    ELSE Unique(Tail(cands),
                IF \E k \in 1..Len(acc) : acc[k] = cands[1]
                THEN acc ELSE Append(acc, cands[1]))

C1Path(base_id) == base_id \o C1_SUFFIX
C2Path(base_id) == base_id \o C2_SUFFIX

\* A faulty variant of BothExist: one companion is enough.
EitherExists(dir, base_id) == C1Path(base_id) \in dir \/ C2Path(base_id) \in dir

\* os.path.exists(c1_path) and os.path.exists(c2_path)
BothExist(dir, base_id) == C1Path(base_id) \in dir /\ C2Path(base_id) \in dir

-----------------------------------------------------------------------------
(* The directories the matcher is run on: every subset of these files. *)

S1 == <<"sample1">>

FileUniverse ==
    { S1 \o MASK_CH1,                         \* sample1_ch1_cells_mask.tif
      S1 \o MASK_CELLS,                       \* sample1_cells_mask.tif
      S1 \o MASK_CELL,                        \* sample1_cell_mask.tif
      S1 \o MASK_CELLS \o <<"x">> \o MASK_CELLS,
                                   \* sample1_cells_mask.tif_x_cells_mask.tif
      C1Path(S1), C2Path(S1),
      C1Path(S1 \o <<"ch1">>), C2Path(S1 \o <<"ch1">>),
      C1Path(S1 \o <<"x">>), C2Path(S1 \o <<"x">>),
      C1Path(S1 \o MASK_CELLS \o <<"x">>), C2Path(S1 \o MASK_CELLS \o <<"x">>) }

-----------------------------------------------------------------------------
(* Masks and erode_mask.  A 2-D mask is [ndim |-> 2, h, w, px], px a function
   from the pixel addresses <<row, column>> (0-based) to labels. *)

erosion_pixels == 4
deep_erosion_pixels == 20

Dom(rows, cols) == (0..(rows - 1)) \X (0..(cols - 1))

Labels == {0, 1, 2}

Masks2D(rows, cols, labels) ==
    { [ndim |-> 2, h |-> rows, w |-> cols, px |-> f] : f \in [Dom(rows, cols) -> labels] }

\* morphology.disk(radius): the offsets <<dy, dx>> with dy^2 + dx^2 <= radius^2
InDisk(dy, dx, radius) == dy * dy + dx * dx <= radius * radius

\* Whether the disk centred on p reaches past an edge of the h x w image
\* (the disk holds the four offsets <<-r, 0>>, <<r, 0>>, <<0, -r>>, <<0, r>>).
DiskLeavesImage(p, rows, cols, radius) ==
    \/ p[1] - radius < 0 \/ p[1] + radius > rows - 1
    \/ p[2] - radius < 0 \/ p[2] + radius > cols - 1

\* A faulty variant of BorderValue: pixels beyond the image count as background.
BorderValueFalse == FALSE

\* morphology.binary_erosion erodes with scipy's border_value=True: a pixel
\* beyond the image counts as foreground and so never removes anything.
BorderValue == TRUE

\* A faulty variant of ErodeMask: a dilation, a pixel is kept when any pixel of its
\* disk is labelled.
DilateMask(m, pixels) ==
    LET dom == Dom(m.h, m.w)
        binary_mask == [p \in dom |-> m.px[p] > 0]
    IN  [p \in dom |->
            \E q \in dom : InDisk(q[1] - p[1], q[2] - p[2], pixels) /\ binary_mask[q]]

\* erode_mask(mask, pixels): a pixel stays true when every pixel under the
\* disk centred on it is true, a pixel beyond the image being BorderValue.
ErodeMask(m, pixels) ==
    LET dom == Dom(m.h, m.w)
        binary_mask == [p \in dom |-> m.px[p] > 0]
    IN  [p \in dom |->
            /\ \A q \in dom : InDisk(q[1] - p[1], q[2] - p[2], pixels) => binary_mask[q]
            /\ DiskLeavesImage(p, m.h, m.w, pixels) => BorderValue]

-----------------------------------------------------------------------------
(* erode_mask as a function of its inputs: every mask of GridH x GridW
   pixels, every pair of radii up to MaxRadius. *)

GridH == 2
GridW == 2
MaxRadius == 2

MatchIdle ==
    /\ directory = {}
    /\ possible_masks = <<>>
    /\ mi = 0
    /\ unique_candidates = <<>>
    /\ ci = 0
    /\ found_match = FALSE
    /\ warnings = <<>>
    /\ mpc = "done"

ErodeIdle ==
    /\ e_mask = <<>>
    /\ e_r1 = 0
    /\ e_r2 = 0
    /\ e_out1 = <<>>
    /\ e_out2 = <<>>
    /\ epc = "done"

MainIdle ==
    /\ disk = <<>>
    /\ ti = 0
    /\ pc = "finished"
    /\ mask = <<>>
    /\ cell_count = 0
    /\ eroded_std = <<>>
    /\ eroded_deep = <<>>
    /\ c1_coords = <<>>
    /\ c1_total = 0
    /\ c2_coords = <<>>
    /\ c2_total = 0
    /\ c2_inside = 0
    /\ c2_deep_inside = 0
    /\ c2_outside = 0
    /\ h = 0
    /\ w = 0
    /\ pt_i = 0
    /\ last_index = <<>>
    /\ reported = {}
    /\ results = <<>>

ErodeInit ==
    /\ e_mask \in Masks2D(GridH, GridW, Labels)
    /\ e_r1 \in 0..MaxRadius
    /\ e_r2 \in 0..MaxRadius
    /\ e_out1 = <<>>
    /\ e_out2 = <<>>
    /\ epc = "call"
    /\ MatchIdle /\ triplets = <<>>
    /\ MainIdle

\* lines 52-56, once per radius
ErodeBoth ==
    /\ epc = "call"
    /\ e_out1' = ErodeMask(e_mask, e_r1)
    /\ e_out2' = ErodeMask(e_mask, e_r2)
    /\ epc' = "done"
    /\ UNCHANGED <<e_mask, e_r1, e_r2, mvars, lvars>>

ErodeNext == ErodeBoth

SpecErode == ErodeInit /\ [][ErodeNext]_vars

-----------------------------------------------------------------------------
(* get_roi_coordinates.  What roifile.ImagejRoi.fromfile finds in a ROI file:
     [kind |-> "unreadable"]            fromfile raises
     [kind |-> "single", roi |-> r]     fromfile returns one object
     [kind |-> "list", rois |-> <<r, ...>>]
   and a ROI r is
     [kind |-> "bad"]                   roi.coordinates() raises
     [kind |-> "1d", pt |-> p]          coordinates() is a bare pair
     [kind |-> "2d", pts |-> <<p, ...>>] coordinates() is an n x 2 array
   with p = <<row, column>> in tenths of a pixel. *)

\* A faulty variant of DecodeFrom: a failure discards what was decoded before it.
RECURSIVE DecodeFromDiscarding(_, _, _)
DecodeFromDiscarding(rois, i, coords) ==
    IF i > Len(rois) THEN [coords |-> coords, failed |-> FALSE]
    ELSE IF rois[i].kind = "bad" THEN [coords |-> <<>>, failed |-> TRUE]
    ELSE LET pts == IF rois[i].kind = "1d" THEN <<rois[i].pt>> ELSE rois[i].pts
         IN  DecodeFromDiscarding(rois, i + 1, coords \o pts)

\* lines 35-45: the loop over the ROIs from the i-th on, coords being what is
\* appended so far; an exception leaves the loop with coords as it stands
RECURSIVE DecodeFrom(_, _, _)
DecodeFrom(rois, i, coords) ==
    IF i > Len(rois) THEN [coords |-> coords, failed |-> FALSE]
    ELSE IF rois[i].kind = "bad" THEN [coords |-> coords, failed |-> TRUE]
    ELSE LET pts == IF rois[i].kind = "1d" THEN <<rois[i].pt>> ELSE rois[i].pts
         IN  DecodeFrom(rois, i + 1, coords \o pts)

\* lines 22-50: [coords, failed], failed when the except branch printed
GetRoiCoordinates(content) ==
    IF content.kind = "unreadable" THEN [coords |-> <<>>, failed |-> TRUE]
    ELSE LET rois == IF content.kind = "single" THEN <<content.roi>> ELSE content.rois
         IN  DecodeFrom(rois, 1, <<>>)

\* int(round(c)) for c in tenths: the nearest integer, a half to the even one
PyRound(c) ==
    LET f == c \div 10
        r == c % 10
    IN  IF r < 5 THEN f
        ELSE IF r > 5 THEN f + 1
        ELSE IF f % 2 = 0 THEN f ELSE f + 1

\* A faulty variant of InBounds: the lower bounds are not tested.
InBoundsUpperOnly(y, x, hh, ww) == x < ww /\ y < hh

\* line 186
InBounds(y, x, hh, ww) == 0 <= x /\ x < ww /\ 0 <= y /\ y < hh

\* a[y, x] on a numpy array of shape (hh, ww): a negative index counts from
\* the end
IndexAt(a, y, x, hh, ww) ==
    a[<<IF y < 0 THEN y + hh ELSE y, IF x < 0 THEN x + ww ELSE x>>]

\* A faulty variant of CountPoint: a point outside the image is counted nowhere.
CountPointNoElse(in_bounds, in_std, in_deep) ==
    [inside      |-> IF in_bounds /\ in_std THEN 1 ELSE 0,
     outside     |-> IF in_bounds /\ ~in_std THEN 1 ELSE 0,
     deep_inside |-> IF in_bounds /\ in_deep THEN 1 ELSE 0]

\* lines 186-197: what one point adds to each counter
CountPoint(in_bounds, in_std, in_deep) ==
    IF in_bounds
    THEN [inside      |-> IF in_std THEN 1 ELSE 0,
          outside     |-> IF in_std THEN 0 ELSE 1,
          deep_inside |-> IF in_deep THEN 1 ELSE 0]
    ELSE [inside |-> 0, outside |-> 1, deep_inside |-> 0]

\* A faulty variant of ErodedDeep: the deep mask is not eroded at all.
ErodedDeepUneroded(m) == ErodeMask(m, 0)

\* line 163
ErodedStd(m) == ErodeMask(m, erosion_pixels)

\* line 166
ErodedDeep(m) == ErodeMask(m, deep_erosion_pixels)

\* line 160: len(cell_ids[cell_ids != 0])
CellCount(m) ==
    LET cell_ids == IF m.ndim = 2 THEN { m.px[p] : p \in Dom(m.h, m.w) } ELSE m.values
    IN  Cardinality(cell_ids \ {0})

-----------------------------------------------------------------------------
(* The inputs of the main loop *)

MaxSamples == 2
MaxRois == 2

\* The masks of the main loop are one row of erosion_pixels + 2 pixels: the
\* narrowest image in which the radius-4 and the radius-20 interiors differ
\* (at the first pixel of a row whose last pixel alone is background).
MainShape == <<1, erosion_pixels + 2>>
MainH == MainShape[1]
MainW == MainShape[2]

CORRUPT == [kind |-> "corrupt"]              \* tifffile.imread raises
\* a multi-frame stack, of which only the pixel values are kept
NOT2D   == [kind |-> "array", ndim |-> 3, values |-> {0, 1}]

MaskArrays == { [kind |-> "array", ndim |-> 2, h |-> m.h, w |-> m.w, px |-> m.px] :
                  m \in Masks2D(MainH, MainW, {0, 1}) }

FullMask == [kind |-> "array", ndim |-> 2, h |-> MainH, w |-> MainW,
             px |-> [p \in Dom(MainH, MainW) |-> 1]]
EdgeMask == [kind |-> "array", ndim |-> 2, h |-> MainH, w |-> MainW,
             px |-> [p \in Dom(MainH, MainW) |-> IF p[2] = MainW - 1 THEN 0 ELSE 2]]

P_ROUNDS_IN == <<-4, 0>>     \* row -0.4 rounds to 0
P_HALF      == <<5, 45>>     \* row 0.5 -> 0, column 4.5 -> 4
P_NEGATIVE  == <<0, -6>>     \* column -0.6 rounds to -1
P_BELOW     == <<10, 20>>    \* row 1 is past the last row
P_LAST      == <<0, 50>>     \* the last column

BAD == [kind |-> "bad"]
Roi1(p) == [kind |-> "2d", pts |-> <<p>>]
Rois ==
    { BAD, Roi1(P_ROUNDS_IN), Roi1(P_NEGATIVE), Roi1(P_BELOW),
      [kind |-> "1d", pt |-> P_HALF],
      [kind |-> "2d", pts |-> <<P_ROUNDS_IN, P_LAST>>] }

RECURSIVE SeqsUpTo(_, _)
SeqsUpTo(S, n) ==
    IF n = 0 THEN {<<>>}
    ELSE LET shorter == SeqsUpTo(S, n - 1)
         IN  shorter \cup { Append(q, e) : q \in {t \in shorter : Len(t) = n - 1}, e \in S }

UNREADABLE == [kind |-> "unreadable"]

RoiFiles ==
    {UNREADABLE}
    \cup { [kind |-> "single", roi |-> r] : r \in {Roi1(P_LAST), BAD} }
    \cup { [kind |-> "list", rois |-> q] : q \in SeqsUpTo(Rois, MaxRois) }

FewRoiFiles ==
    { UNREADABLE,
      [kind |-> "list", rois |-> <<>>],
      [kind |-> "list", rois |-> <<Roi1(P_LAST)>>],
      [kind |-> "list", rois |-> <<Roi1(P_LAST), BAD>>] }

MaskPath(i) == <<i, "mask">>
C1RoiPath(i) == <<i, "c1">>
C2RoiPath(i) == <<i, "c2">>

Paths(n) == UNION { {MaskPath(i), C1RoiPath(i), C2RoiPath(i)} : i \in 1..n }

\* the triplets find_file_triplets returned, sample i having id i
TripletsOf(n) ==
    [i \in 1..n |-> [id |-> i, mask |-> MaskPath(i),
                     c1_roi |-> C1RoiPath(i), c2_roi |-> C2RoiPath(i)]]

\* One sample with any mask and any channel-2 file, or a batch of up to
\* MaxSamples samples each with one of a few files.
MainInit ==
    /\ \/ /\ triplets = TripletsOf(1)
          /\ \E m \in MaskArrays \cup {CORRUPT, NOT2D}, f1 \in FewRoiFiles, f2 \in RoiFiles :
                disk = [p \in Paths(1) |->
                          IF p = MaskPath(1) THEN m ELSE IF p = C1RoiPath(1) THEN f1 ELSE f2]
       \/ \E n \in 0..MaxSamples :
          /\ triplets = TripletsOf(n)
          /\ \E ms \in [1..n -> {CORRUPT, NOT2D, FullMask, EdgeMask}],
                f1 \in [1..n -> {UNREADABLE, [kind |-> "list", rois |-> <<Roi1(P_LAST)>>]}],
                f2 \in [1..n -> {[kind |-> "list", rois |-> <<Roi1(P_ROUNDS_IN)>>],
                                 [kind |-> "list", rois |-> <<Roi1(P_ROUNDS_IN), BAD>>]}] :
                disk = [p \in Paths(n) |->
                          IF p[2] = "mask" THEN ms[p[1]]
                          ELSE IF p[2] = "c1" THEN f1[p[1]] ELSE f2[p[1]]]
    /\ ti = 1
    /\ pc = "load"
    /\ mask = <<>>
    /\ cell_count = 0
    /\ eroded_std = <<>>
    /\ eroded_deep = <<>>
    /\ c1_coords = <<>>
    /\ c1_total = 0
    /\ c2_coords = <<>>
    /\ c2_total = 0
    /\ c2_inside = 0
    /\ c2_deep_inside = 0
    /\ c2_outside = 0
    /\ h = 0
    /\ w = 0
    /\ pt_i = 0
    /\ last_index = <<>>
    /\ reported = {}
    /\ results = <<>>
    /\ MatchIdle
    /\ ErodeIdle

-----------------------------------------------------------------------------
(* The main loop, lines 152-207 *)

\* line 152 when the triplets are exhausted: the loop ends
LoopEnd ==
    /\ pc = "load"
    /\ ti > Len(triplets)
    /\ pc' = "finished"
    /\ UNCHANGED <<disk, ti, mask, cell_count, eroded_std, eroded_deep, c1_coords,
                   c1_total, c2_coords, c2_total, c2_inside, c2_deep_inside,
                   c2_outside, h, w, pt_i, last_index, reported, results>>
    /\ UNCHANGED <<mvars, evars>>

\* lines 156-160: tifffile.imread is not guarded, an exception ends the script
LoadMask ==
    /\ pc = "load"
    /\ ti <= Len(triplets)
    /\ LET content == disk[triplets[ti].mask]
       IN  IF content.kind = "corrupt"
           THEN /\ pc' = "crashed"
                /\ UNCHANGED <<mask, cell_count>>
           ELSE /\ mask' = content
                /\ cell_count' = CellCount(content)
                /\ pc' = "erode"
    /\ UNCHANGED <<disk, ti, eroded_std, eroded_deep, c1_coords, c1_total, c2_coords,
                   c2_total, c2_inside, c2_deep_inside, c2_outside, h, w, pt_i,
                   last_index, reported, results>>
    /\ UNCHANGED <<mvars, evars>>

\* lines 163-166: binary_erosion rejects an image whose dimension differs
\* from the 2-D disk's, and that exception ends the script as well
ErodeMasks ==
    /\ pc = "erode"
    /\ IF mask.ndim = 2
       THEN /\ eroded_std' = ErodedStd(mask)
            /\ eroded_deep' = ErodedDeep(mask)
            /\ pc' = "read_c1"
       ELSE /\ pc' = "crashed"
            /\ UNCHANGED <<eroded_std, eroded_deep>>
    /\ UNCHANGED <<disk, ti, mask, cell_count, c1_coords, c1_total, c2_coords,
                   c2_total, c2_inside, c2_deep_inside, c2_outside, h, w, pt_i,
                   last_index, reported, results>>
    /\ UNCHANGED <<mvars, evars>>

\* lines 169-170
ReadC1 ==
    /\ pc = "read_c1"
    /\ LET got == GetRoiCoordinates(disk[triplets[ti].c1_roi])
       IN  /\ c1_coords' = got.coords
           /\ c1_total' = Len(got.coords)
           /\ reported' = IF got.failed THEN reported \cup {triplets[ti].c1_roi} ELSE reported
    /\ pc' = "read_c2"
    /\ UNCHANGED <<disk, ti, mask, cell_count, eroded_std, eroded_deep, c2_coords,
                   c2_total, c2_inside, c2_deep_inside, c2_outside, h, w, pt_i,
                   last_index, results>>
    /\ UNCHANGED <<mvars, evars>>

\* lines 173-180
ReadC2 ==
    /\ pc = "read_c2"
    /\ LET got == GetRoiCoordinates(disk[triplets[ti].c2_roi])
       IN  /\ c2_coords' = got.coords
           /\ c2_total' = Len(got.coords)
           /\ reported' = IF got.failed THEN reported \cup {triplets[ti].c2_roi} ELSE reported
    /\ c2_inside' = 0
    /\ c2_deep_inside' = 0
    /\ c2_outside' = 0
    /\ h' = mask.h
    /\ w' = mask.w
    /\ pt_i' = 1
    /\ last_index' = <<>>
    /\ pc' = "classify"
    /\ UNCHANGED <<disk, ti, mask, cell_count, eroded_std, eroded_deep, c1_coords,
                   c1_total, results>>
    /\ UNCHANGED <<mvars, evars>>

\* lines 182-197: one iteration of the for loop
ClassifyPoint ==
    /\ pc = "classify"
    /\ pt_i <= Len(c2_coords)
    /\ LET coord == c2_coords[pt_i]
           y == PyRound(coord[1])
           x == PyRound(coord[2])
           in_bounds == InBounds(y, x, h, w)
           in_std == in_bounds /\ IndexAt(eroded_std, y, x, h, w)
           in_deep == in_bounds /\ IndexAt(eroded_deep, y, x, h, w)
           add == CountPoint(in_bounds, in_std, in_deep)
       IN  /\ c2_inside' = c2_inside + add.inside
           /\ c2_outside' = c2_outside + add.outside
           /\ c2_deep_inside' = c2_deep_inside + add.deep_inside
           /\ last_index' = IF in_bounds THEN <<y, x>> ELSE <<>>
    /\ pt_i' = pt_i + 1
    /\ UNCHANGED <<disk, ti, pc, mask, cell_count, eroded_std, eroded_deep, c1_coords,
                   c1_total, c2_coords, c2_total, h, w, reported, results>>
    /\ UNCHANGED <<mvars, evars>>

\* lines 199-207, then the next triplet
AppendResult ==
    /\ pc = "classify"
    /\ pt_i > Len(c2_coords)
    /\ results' = Append(results,
            [Filename |-> triplets[ti].id, Cell_Count |-> cell_count,
             Ch1_Spots |-> c1_total, Ch2_Spots_Total |-> c2_total,
             Ch2_Inside |-> c2_inside, Ch2_Deep_Inside |-> c2_deep_inside,
             Ch2_Outside |-> c2_outside])
    /\ ti' = ti + 1
    /\ pc' = "load"
    /\ UNCHANGED <<disk, mask, cell_count, eroded_std, eroded_deep, c1_coords, c1_total,
                   c2_coords, c2_total, c2_inside, c2_deep_inside, c2_outside, h, w,
                   pt_i, last_index, reported>>
    /\ UNCHANGED <<mvars, evars>>

MainNext == LoopEnd \/ LoadMask \/ ErodeMasks \/ ReadC1 \/ ReadC2 \/ ClassifyPoint \/ AppendResult

SpecMain == MainInit /\ [][MainNext]_vars

-----------------------------------------------------------------------------
(* find_file_triplets *)

MatchInit ==
    /\ directory \in SUBSET FileUniverse
    /\ possible_masks = <<>>
    /\ mi = 0
    /\ unique_candidates = <<>>
    /\ ci = 0
    /\ found_match = FALSE
    /\ triplets = <<>>
    /\ warnings = <<>>
    /\ mpc = "glob"
    /\ ErodeIdle
    /\ MainIdle

\* lines 63-70
GlobMasks ==
    /\ mpc = "glob"
    /\ possible_masks' = SortedList(Glob(directory, MASK_CELLS) \cup Glob(directory, MASK_CELL))
    /\ mi' = 1
    /\ mpc' = "mask"
    /\ UNCHANGED <<directory, unique_candidates, ci, found_match, triplets, warnings, evars, lvars>>

\* lines 72-94: the next mask's candidates; line 113 when the list is exhausted
BeginMask ==
    /\ mpc = "mask"
    /\ IF mi <= Len(possible_masks)
       THEN /\ unique_candidates' = Unique(Candidates(possible_masks[mi]), <<>>)
            /\ found_match' = FALSE
            /\ ci' = 1
            /\ mpc' = "cand"
       ELSE /\ mpc' = "done"
            /\ UNCHANGED <<unique_candidates, found_match, ci>>
    /\ UNCHANGED <<directory, possible_masks, mi, triplets, warnings, evars, lvars>>

\* lines 96-108: one iteration of the candidate loop
CheckCandidate ==
    /\ mpc = "cand"
    /\ IF ci <= Len(unique_candidates)
       THEN LET base_id == unique_candidates[ci]
            IN  IF BothExist(directory, base_id)
                THEN /\ triplets' = Append(triplets,
                            [id |-> base_id, mask |-> possible_masks[mi],
                             c1_roi |-> C1Path(base_id), c2_roi |-> C2Path(base_id)])
                     /\ found_match' = TRUE
                     /\ mpc' = "endmask"
                     /\ UNCHANGED ci
                ELSE /\ ci' = ci + 1
                     /\ UNCHANGED <<triplets, found_match, mpc>>
       ELSE /\ mpc' = "endmask"
            /\ UNCHANGED <<triplets, found_match, ci>>
    /\ UNCHANGED <<directory, possible_masks, mi, unique_candidates, warnings, evars, lvars>>

\* lines 110-111, then on to the next mask
EndMask ==
    /\ mpc = "endmask"
    /\ warnings' = IF found_match THEN warnings ELSE Append(warnings, possible_masks[mi])
    /\ mi' = mi + 1
    /\ mpc' = "mask"
    /\ UNCHANGED <<directory, possible_masks, unique_candidates, ci, found_match, triplets, evars, lvars>>

MatchNext == GlobMasks \/ BeginMask \/ CheckCandidate \/ EndMask

SpecMatch == MatchInit /\ [][MatchNext]_vars

-----------------------------------------------------------------------------
(* Claims about find_file_triplets *)

HasPair(base_id) == (base_id \o C1_SUFFIX) \in directory /\ (base_id \o C2_SUFFIX) \in directory

\* The priority order as the specification words it: the channel-qualified
\* strip, the "cells" strip, the "cell" strip, the rsplit fallback, without
\* duplicates, first-seen order kept.
StatedOrder(filename) ==
    LET ch1      == IF Contains(filename, MASK_CH1) THEN <<Replace(filename, MASK_CH1)>> ELSE <<>>
        cells    == IF Contains(filename, MASK_CELLS) THEN <<Replace(filename, MASK_CELLS)>> ELSE <<>>
        cell     == IF Contains(filename, MASK_CELL) THEN <<Replace(filename, MASK_CELL)>> ELSE <<>>
        fallback == <<RSplit2(filename)>>
        all      == ch1 \o cells \o cell \o fallback
    IN  Unique(all, <<>>)

MaskNames == { f \in directory : \E n \in 3..Len(f) :
                 Len(f) = n /\ f[n] = "mask.tif" /\ f[n - 1] \in {"cells", "cell"} }

Sample1Directory == { S1 \o MASK_CH1, S1 \o C1_SUFFIX, S1 \o C2_SUFFIX }

\* C2: a triplet's id is the first candidate, in the stated priority order,
\* whose two companion files both exist; a mask gets at most one triplet, so
\* no later candidate is used; and the directory holding only
\* sample1_ch1_cells_mask.tif, sample1_C1_ROIs.zip and sample1_C2_ROIs.zip
\* yields exactly one triplet, with id sample1.
C2_FirstCandidateWins ==
    /\ \A k \in 1..Len(triplets) :
         LET t == triplets[k]
             order == StatedOrder(t.mask)
         IN  \E j \in 1..Len(order) :
                /\ order[j] = t.id
                /\ HasPair(order[j])
                /\ \A e \in 1..(j - 1) : ~HasPair(order[e])
    /\ \A k, l \in 1..Len(triplets) : k # l => triplets[k].mask # triplets[l].mask
    /\ (mpc = "done" /\ directory = Sample1Directory) =>
         triplets = << [id |-> S1, mask |-> S1 \o MASK_CH1,
                        c1_roi |-> S1 \o C1_SUFFIX, c2_roi |-> S1 \o C2_SUFFIX] >>

\* C2's case: a finished run in which a mask took its first candidate
\* although a later candidate's companions exist too.
C2_Witness ==
    /\ mpc = "done"
    /\ \E k \in 1..Len(triplets) :
         LET order == StatedOrder(triplets[k].mask)
         IN  /\ Len(order) >= 2
             /\ triplets[k].id = order[1]
             /\ HasPair(order[2])

\* C3: every returned triplet's two ROI paths exist; once the matcher has
\* returned, a mask has a triplet exactly when one of its candidates has both
\* companions, and every mask of the directory was examined: it either has a
\* triplet or was reported by the warning.
C3_CompleteTripletsOnly ==
    /\ \A k \in 1..Len(triplets) :
         /\ triplets[k].c1_roi \in directory
         /\ triplets[k].c2_roi \in directory
         /\ triplets[k].c1_roi = triplets[k].id \o C1_SUFFIX
         /\ triplets[k].c2_roi = triplets[k].id \o C2_SUFFIX
    /\ mpc = "done" =>
         \A m \in MaskNames :
            LET order == StatedOrder(m)
                has_triplet == \E k \in 1..Len(triplets) : triplets[k].mask = m
                warned == \E k \in 1..Len(warnings) : warnings[k] = m
            IN  /\ has_triplet <=> (\E j \in 1..Len(order) : HasPair(order[j]))
                /\ has_triplet <=> ~warned

\* C3's case: a finished run in which a mask with only one of the two
\* companions of a candidate was warned about, and a later mask of the sorted
\* list still got its triplet.
C3_Witness ==
    /\ mpc = "done"
    /\ \E u \in 1..Len(warnings), k \in 1..Len(triplets) :
         /\ NameLess(warnings[u], triplets[k].mask)
         /\ \E j \in 1..Len(StatedOrder(warnings[u])) :
              LET c == StatedOrder(warnings[u])[j]
              IN  ((c \o C1_SUFFIX) \in directory) # ((c \o C2_SUFFIX) \in directory)

\* C10: no two returned triplets carry the same id.
C10_DistinctIds ==
    \A k, l \in 1..Len(triplets) : k # l => triplets[k].id # triplets[l].id

-----------------------------------------------------------------------------
(* Claims about the main loop *)

\* one iteration of the channel-2 for loop
PointStep == pc = "classify" /\ pc' = "classify" /\ pt_i' = pt_i + 1

\* C1: in every result record Ch2_Inside + Ch2_Outside = Ch2_Spots_Total, and
\* each handled point grows exactly one of c2_inside, c2_outside, by 1.
C1_InsidePlusOutside ==
    /\ [](\A j \in 1..Len(results) :
            results[j].Ch2_Inside + results[j].Ch2_Outside = results[j].Ch2_Spots_Total)
    /\ [][PointStep =>
            \/ c2_inside' = c2_inside + 1 /\ c2_outside' = c2_outside
            \/ c2_inside' = c2_inside /\ c2_outside' = c2_outside + 1]_vars

\* C1's case: a record of a sample whose points include one with a negative
\* address and one on a half-integer, counted on both sides.
C1_Witness ==
    /\ Len(results) >= 1
    /\ results[1].Ch2_Inside >= 1
    /\ results[1].Ch2_Outside >= 1
    /\ \E a, b \in 1..Len(c2_coords) : c2_coords[a] = P_NEGATIVE /\ c2_coords[b] = P_HALF

\* the ROIs of a file, and the points of a ROI, as the files are described
RoisOf(content) ==
    IF content.kind = "unreadable" THEN <<>>
    ELSE IF content.kind = "single" THEN <<content.roi>> ELSE content.rois

Fails(content) ==
    \/ content.kind = "unreadable"
    \/ \E i \in 1..Len(RoisOf(content)) : RoisOf(content)[i].kind = "bad"

FirstBad(rois) ==
    IF \E i \in 1..Len(rois) : rois[i].kind = "bad"
    THEN CHOOSE i \in 1..Len(rois) :
            rois[i].kind = "bad" /\ \A e \in 1..(i - 1) : rois[e].kind # "bad"
    ELSE Len(rois) + 1

RECURSIVE Flatten(_)
Flatten(rois) ==
    IF rois = <<>> THEN <<>>
    ELSE (IF rois[1].kind = "1d" THEN <<rois[1].pt>> ELSE rois[1].pts) \o Flatten(Tail(rois))

PointsBeforeFailure(content) ==
    Flatten(SubSeq(RoisOf(content), 1, FirstBad(RoisOf(content)) - 1))

MaskFails(content) == content.kind = "corrupt" \/ content.ndim # 2

\* C4: when the run has ended and exactly one file of the batch cannot be
\* read (a mask that is corrupt or not 2-D, or a ROI file that fails to
\* decode), every triplet other than that file's has its record in results.
C4_OtherSamplesProcessed ==
    pc \in {"finished", "crashed"} =>
        LET bad_files == { f \in DOMAIN disk :
                             IF f[2] = "mask" THEN MaskFails(disk[f]) ELSE Fails(disk[f]) }
        IN  Cardinality(bad_files) = 1 =>
               \A i \in 1..Len(triplets) :
                  (\A f \in bad_files : f[1] # i) =>
                     \E j \in 1..Len(results) : results[j].Filename = triplets[i].id

\* C5 as stated: a sample whose ROI file fails to decode has a count of 0
\* for that channel in its record.
C5_FailureGivesZero ==
    \A j \in 1..Len(results) :
        /\ Fails(disk[triplets[j].c1_roi]) => results[j].Ch1_Spots = 0
        /\ Fails(disk[triplets[j].c2_roi]) =>
              /\ results[j].Ch2_Spots_Total = 0
              /\ results[j].Ch2_Inside = 0
              /\ results[j].Ch2_Deep_Inside = 0
              /\ results[j].Ch2_Outside = 0

\* C5 as amended: a decode failure is reported and never ends the run; the
\* extractor returns the points decoded before the failure, none dropped and
\* none invented (none at all when the file cannot be opened), and the
\* sample's record counts exactly those points for that channel.
C5_FailureKeepsDecoded ==
    /\ \A j \in 1..Len(results) :
         /\ results[j].Filename = triplets[j].id
         /\ results[j].Ch1_Spots = Len(PointsBeforeFailure(disk[triplets[j].c1_roi]))
         /\ results[j].Ch2_Spots_Total = Len(PointsBeforeFailure(disk[triplets[j].c2_roi]))
         /\ Fails(disk[triplets[j].c1_roi]) <=> triplets[j].c1_roi \in reported
         /\ Fails(disk[triplets[j].c2_roi]) <=> triplets[j].c2_roi \in reported
    /\ pc = "classify" => c2_coords = PointsBeforeFailure(disk[triplets[ti].c2_roi])
    /\ pc \in {"read_c2", "classify"} =>
         c1_coords = PointsBeforeFailure(disk[triplets[ti].c1_roi])
    /\ \A i \in 1..Len(triplets) :
         (i < ti /\ (Fails(disk[triplets[i].c1_roi]) \/ Fails(disk[triplets[i].c2_roi])))
            => Len(results) >= i
    /\ pc = "crashed" => MaskFails(disk[triplets[ti].mask])
    /\ \A j \in 1..Len(results) :
         disk[triplets[j].c2_roi].kind = "unreadable" => results[j].Ch2_Spots_Total = 0

\* C5's case: a record of a sample whose channel-2 file failed after a point
\* had been decoded, and whose channel-1 file could not be opened.
C5_Witness ==
    /\ Len(results) >= 1
    /\ Fails(disk[triplets[1].c2_roi])
    /\ results[1].Ch2_Spots_Total >= 1
    /\ disk[triplets[1].c1_roi].kind = "unreadable"
    /\ results[1].Ch1_Spots = 0
    /\ {triplets[1].c1_roi, triplets[1].c2_roi} \subseteq reported

\* n is a nearest integer of the coordinate c (in tenths)
Nearest(n, c) == 10 * n - 5 <= c /\ c <= 10 * n + 5

Around(c) == ((c \div 10) - 1)..((c \div 10) + 1)

\* C8: a point is rounded component-wise to a nearest integer address; an
\* address outside [0, H) x [0, W) adds to Ch2_Outside only and indexes no
\* interior mask; an address inside is tested against the masks, also when
\* the raw coordinate lies slightly outside (row -0.4 is row 0).
C8_BoundaryCheck ==
    /\ [](last_index # <<>> =>
            /\ 0 <= last_index[1] /\ last_index[1] < h
            /\ 0 <= last_index[2] /\ last_index[2] < w)
    /\ [][PointStep =>
            \E y \in Around(c2_coords[pt_i][1]), x \in Around(c2_coords[pt_i][2]) :
               /\ Nearest(y, c2_coords[pt_i][1])
               /\ Nearest(x, c2_coords[pt_i][2])
               /\ IF 0 <= y /\ y < mask.h /\ 0 <= x /\ x < mask.w
                  THEN /\ last_index' = <<y, x>>
                       /\ (c2_inside' = c2_inside + 1) <=> eroded_std[<<y, x>>]
                       /\ (c2_outside' = c2_outside + 1) <=> ~eroded_std[<<y, x>>]
                       /\ (c2_deep_inside' = c2_deep_inside + 1) <=> eroded_deep[<<y, x>>]
                  ELSE /\ last_index' = <<>>
                       /\ c2_outside' = c2_outside + 1
                       /\ c2_inside' = c2_inside
                       /\ c2_deep_inside' = c2_deep_inside]_vars
    /\ [][(PointStep /\ c2_coords[pt_i] = P_ROUNDS_IN) => last_index' = <<0, 0>>]_vars

\* C8's case: a point at column -0.6 was counted outside, then the point at
\* row -0.4 was tested against the masks at row 0 and found inside.
C8_Witness ==
    /\ pc = "classify"
    /\ pt_i = 3
    /\ c2_coords = <<P_NEGATIVE, P_ROUNDS_IN>>
    /\ last_index = <<0, 0>>
    /\ c2_outside = 1
    /\ c2_inside = 1

\* C9: with radii 4 < 20 a point that grows Ch2_Deep_Inside grows Ch2_Inside
\* and not Ch2_Outside, so Ch2_Deep_Inside <= Ch2_Inside <= Ch2_Spots_Total
\* in every record.
C9_DeepWithinInside ==
    /\ erosion_pixels < deep_erosion_pixels
    /\ [](\A j \in 1..Len(results) :
            /\ results[j].Ch2_Deep_Inside <= results[j].Ch2_Inside
            /\ results[j].Ch2_Inside <= results[j].Ch2_Spots_Total)
    /\ [][(PointStep /\ c2_deep_inside' # c2_deep_inside) =>
            /\ c2_deep_inside' = c2_deep_inside + 1
            /\ c2_inside' = c2_inside + 1
            /\ c2_outside' = c2_outside]_vars

\* C9's case: one record with a deep-inside point, another with a point
\* inside the shallow interior that is not deep inside.
C9_Witness ==
    \E i, j \in 1..Len(results) :
        /\ results[i].Ch2_Deep_Inside >= 1
        /\ results[j].Ch2_Inside >= 1
        /\ results[j].Ch2_Deep_Inside = 0

-----------------------------------------------------------------------------
(* Claims about erode_mask *)

\* C6: for radii r1 < r2 the interior mask at r2 is a subset of the interior
\* mask at r1, also for labelled regions that touch the image edge.
C6_DeepSubsetOfShallow ==
    (epc = "done" /\ e_r1 < e_r2) =>
        \A p \in Dom(e_mask.h, e_mask.w) : e_out2[p] => e_out1[p]

\* C6's case: a region touching the image edge that the smaller radius keeps
\* in part and the larger radius removes in part.
C6_Witness ==
    /\ epc = "done" /\ e_r1 < e_r2
    /\ \E p \in Dom(e_mask.h, e_mask.w) : e_out1[p] /\ ~e_out2[p]
    /\ \E p \in Dom(e_mask.h, e_mask.w) : e_out2[p]

\* C7 as stated: for r >= 1 a pixel whose disk reaches past an edge of the
\* image is false in the interior mask.
C7_EdgeIsBackground ==
    (epc = "done" /\ e_r1 >= 1) =>
        \A p \in Dom(e_mask.h, e_mask.w) :
            DiskLeavesImage(p, e_mask.h, e_mask.w, e_r1) => ~e_out1[p]

\* C7 as amended: what lies beyond the image is ignored; a pixel is true in
\* the interior mask exactly when every pixel of the image within distance r
\* of it is labelled, so a mask that is nonzero everywhere erodes to all true.
C7_EdgeIsIgnored ==
    epc = "done" =>
        /\ \A p \in Dom(e_mask.h, e_mask.w) :
              e_out1[p] <=>
                 \A y \in 0..(e_mask.h - 1), x \in 0..(e_mask.w - 1) :
                    ((y - p[1]) * (y - p[1]) + (x - p[2]) * (x - p[2]) <= e_r1 * e_r1)
                        => e_mask.px[<<y, x>>] # 0
        /\ (\A q \in Dom(e_mask.h, e_mask.w) : e_mask.px[q] # 0)
              => \A p \in Dom(e_mask.h, e_mask.w) : e_out1[p]

\* C7's case: radius >= 1, a pixel whose disk reaches past the edge and
\* whose in-image neighbourhood is all labelled, in a mask with background.
C7_Witness ==
    /\ epc = "done" /\ e_r1 >= 1
    /\ \E p, q \in Dom(e_mask.h, e_mask.w) :
         /\ DiskLeavesImage(p, e_mask.h, e_mask.w, e_r1)
         /\ e_out1[p]
         /\ e_mask.px[q] = 0

=============================================================================
